---- MODULE Spec2Model ----
(***************************************************************************)
(* GTNH recipe calculator: recipe variant selection (logic.py),            *)
(* the recursive demand resolvers (logic.py, gui.py) and the craft commit  *)
(* of the inventory editor (inventory_gui.py).                             *)
(*                                                                         *)
(* A recipe variant (a JSON object of recipes.json) is a record            *)
(*   tags_present  : the object has a "_tags" key                          *)
(*   tags          : the list under "_tags" (<<>> when absent)             *)
(*   inputs        : the component keys with their counts, in dict order   *)
(*   inputs_nested : the components are kept under "_inputs" instead of    *)
(*                   as top-level keys                                     *)
(*   outputs       : the pairs of the "_outputs" object (<<>> when absent) *)
(* A store entry is [shape, variants]: shape "dict" is a single recipe     *)
(* object (variants has length 1), shape "list" a list of variants.        *)
(* A dict (store, inventory, totals) is a function whose DOMAIN is its key *)
(* set.                                                                    *)
(***************************************************************************)
EXTENDS Integers, Sequences, FiniteSets, TLC

VARIABLES
    recipes,             \* gui.py `recipes`: item name -> entry
    inventory_file,      \* contents of inventory.json
    current_tech_level,  \* gui.py `current_tech_level`
    last_viewed_recipe,  \* gui.py `last_viewed_recipe`
    pc,                  \* which handler is running / how the last one ended
    root,                \* (name, quantity) the running pass was started with
    inventory,           \* working inventory of the running pass
    original_inventory,  \* the dict load_inventory() returned to the handler
    raw_needed,          \* calculate_raw_materials: leaf totals
    component_totals,    \* view_raw_materials (full mode): totals
    stack,               \* call stack of the recursive function of the pass
    trace,               \* the calls of the recursive function so far, with their locals
    sel,                 \* latest get_best_recipe query and its result
    sel_prev,            \* the query before it
    editor_inventory,    \* inventory_gui.py `inventory` of the inventory editor
    craft,               \* locals of craft_item at its end
    edit                 \* the last handler of the recipe store editor, at its end

vars == <<recipes, inventory_file, current_tech_level, last_viewed_recipe, pc,
          root, inventory, original_inventory, raw_needed, component_totals,
          stack, trace, sel, sel_prev, editor_inventory, craft, edit>>

----------------------------------------------------------------------------
(* Bounds of the model *)

MaxVariants == 3     \* variants per list in the selector's inputs
MaxCount == 2        \* per-craft count of an input
MaxOut == 2          \* per-craft output count
MaxHave == 1         \* owned quantity per item in the loaded inventory
MaxQty == 2          \* requested quantity
MaxDepth == 4        \* call depth at which the interpreter gives up
MaxStock == 2        \* largest quantity the inventory file is let grow to

----------------------------------------------------------------------------
(* Vocabulary *)

Items == {"A", "B", "L"}

None == "None"

tag_order == <<"Any", "Steam", "LV", "MV", "HV", "EV", "IV", "LuV", "ZPN",
               "UV", "UHV", "UEV", "UIV", "UMV", "UXV", "MAX">>

Range(s) == {s[i] : i \in 1..Len(s)}

\* list.index(x): 0-based position of the first occurrence
ListIndex(s, x) ==
    (CHOOSE i \in 1..Len(s) : s[i] = x /\ \A j \in 1..(i - 1) : s[j] # x) - 1

\* dict.get(k, default)
Get(d, k, default) == IF k \in DOMAIN d THEN d[k] ELSE default

\* d[k] = v on a dict
Put(d, k, v) == [x \in (DOMAIN d) \cup {k} |-> IF x = k THEN v ELSE d[x]]

EmptyDict == [x \in {} |-> 0]

Max(a, b) == IF a >= b THEN a ELSE b

SetMax(S) == CHOOSE m \in S : \A x \in S : x <= m
SetMin(S) == CHOOSE m \in S : \A x \in S : m <= x

Variant(tp, t, i, o) ==
    [tags_present |-> tp, tags |-> t, inputs |-> i, inputs_nested |-> FALSE,
     outputs |-> o]

Pair(n, c) == [name |-> n, count |-> c]

DictEntry(v) == [shape |-> "dict", variants |-> <<v>>]
ListEntry(vs) == [shape |-> "list", variants |-> vs]

----------------------------------------------------------------------------
(* logic.py: get_best_recipe *)

\* r.get("_tags", [])
TagsOf(r) == IF r.tags_present THEN r.tags ELSE <<>>

\* inner loop, lines 80-85: acc = [recipe_max_idx, recipe_tag]
RECURSIVE TagLoop(_, _, _)
TagLoop(tags, i, acc) ==
    IF i > Len(tags) THEN acc
    ELSE LET tag == tags[i] IN
         IF tag \in Range(tag_order) /\ ListIndex(tag_order, tag) > acc.recipe_max_idx
         THEN TagLoop(tags, i + 1,
                      [recipe_max_idx |-> ListIndex(tag_order, tag), recipe_tag |-> tag])
         ELSE TagLoop(tags, i + 1, acc)

RecipeMax(r) == TagLoop(TagsOf(r), 1, [recipe_max_idx |-> -1, recipe_tag |-> None])

\* line 87: does variant r replace the best found so far
BetterThanExact(r, max_index, best_score) ==
    RecipeMax(r).recipe_max_idx = max_index /\ RecipeMax(r).recipe_max_idx > best_score

BetterThanLast(r, max_index, best_score) ==
    RecipeMax(r).recipe_max_idx <= max_index /\ RecipeMax(r).recipe_max_idx >= best_score

BetterThan(r, max_index, best_score) ==
    RecipeMax(r).recipe_max_idx <= max_index /\ RecipeMax(r).recipe_max_idx > best_score

\* outer loop, lines 75-90: acc = [best, best_score, best_tag];
\* best is the position of the variant in the list, 0 for None
RECURSIVE VariantLoop(_, _, _, _)
VariantLoop(entry, i, max_index, acc) ==
    IF i > Len(entry) THEN acc
    ELSE IF BetterThan(entry[i], max_index, acc.best_score)
         THEN VariantLoop(entry, i + 1, max_index,
                          [best |-> i,
                           best_score |-> RecipeMax(entry[i]).recipe_max_idx,
                           best_tag |-> RecipeMax(entry[i]).recipe_tag])
         ELSE VariantLoop(entry, i + 1, max_index, acc)

\* result [best, tag]: best = 0 and tag = None stand for (None, None)
get_best_recipe(name, rs, tech_level) ==
    IF name \notin DOMAIN rs THEN [best |-> 0, tag |-> None]
    ELSE IF rs[name].shape = "dict" THEN [best |-> 1, tag |-> "Any"]
    ELSE LET r == VariantLoop(rs[name].variants, 1, ListIndex(tag_order, tech_level),
                              [best |-> 0, best_score |-> -1, best_tag |-> None])
         IN [best |-> r.best, tag |-> r.best_tag]

----------------------------------------------------------------------------
(* Inputs of the selector *)

SelectTiers == {"Any", "LV", "MV", "HV"}

\* "Raw" is the tag the inventory editor gives raw materials; it is not a tier
SelectTagChoices ==
    { [p |-> FALSE, t |-> <<>>], [p |-> TRUE, t |-> <<>>],
      [p |-> TRUE, t |-> <<"Any">>], [p |-> TRUE, t |-> <<"Any", "MV">>],
      [p |-> TRUE, t |-> <<"LV">>], [p |-> TRUE, t |-> <<"Raw", "Any">>] }

SelectVariants == { Variant(c.p, c.t, <<>>, <<>>) : c \in SelectTagChoices }

SelectEntries ==
    { DictEntry(v) : v \in SelectVariants }
    \cup { ListEntry(vs) : vs \in UNION { [1..n -> SelectVariants] : n \in 0..MaxVariants } }

SelectStores == {EmptyDict} \cup { [x \in {"A"} |-> e] : e \in SelectEntries }

NoSel == [name |-> None, tier |-> None, best |-> 0, tag |-> None]

\* one application of get_best_recipe(name, recipes, tier)
SelectVariant(name, tier) ==
    /\ sel' = [name |-> name, tier |-> tier,
               best |-> get_best_recipe(name, recipes, tier).best,
               tag |-> get_best_recipe(name, recipes, tier).tag]
    /\ sel_prev' = sel
    /\ UNCHANGED <<recipes, inventory_file, current_tech_level, last_viewed_recipe,
                   pc, root, inventory, original_inventory, raw_needed,
                   component_totals, stack, trace, editor_inventory, craft,
                   edit>>

NoRoot == [name |-> None, quantity |-> 0, mode |-> None]
NoCraft == [status |-> None]
NoEdit == [op |-> None]

InitSelect ==
    /\ recipes \in SelectStores
    /\ inventory_file = EmptyDict
    /\ current_tech_level = "MAX"
    /\ last_viewed_recipe = None
    /\ pc = "idle"
    /\ root = NoRoot
    /\ inventory = EmptyDict
    /\ original_inventory = EmptyDict
    /\ raw_needed = EmptyDict
    /\ component_totals = EmptyDict
    /\ stack = <<>>
    /\ trace = <<>>
    /\ sel = NoSel
    /\ sel_prev = NoSel
    /\ editor_inventory = EmptyDict
    /\ craft = NoCraft
    /\ edit = NoEdit

NextSelect == \E name \in {"A", "B"}, tier \in SelectTiers : SelectVariant(name, tier)

SpecSelect == InitSelect /\ [][NextSelect]_vars

----------------------------------------------------------------------------
(* The resolution passes: logic.py calculate_raw_materials.recurse,        *)
(* gui.py view_raw_materials.collect_components, view_component_tree.recurse *)

Quantities == (-1)..MaxQty

TechLevels == {"LV", "MAX"}

NoEntry == [absent |-> TRUE]

\* variants of the rounding: the floor, and the floor plus one
CeilDivFloor(a, b) == IF b > 0 THEN a \div b ELSE (-a) \div (-b)

CeilDivSpare(a, b) == IF b > 0 THEN (a \div b) + 1 ELSE ((-a) \div (-b)) + 1

\* math.ceil(a / b) for b # 0
CeilDiv(a, b) == IF b > 0 THEN -((-a) \div b) ELSE -(a \div (-b))

\* entry = recipes.get(item); if isinstance(entry, list): entry = entry[0]
\* (the caller has checked that a list is not empty)
FirstEntry(rs, item) ==
    IF item \notin DOMAIN rs THEN NoEntry ELSE rs[item].variants[1]

\* entry, _ = get_best_recipe(item, recipes, tech_level)
BestEntry(rs, item, tech_level) ==
    IF get_best_recipe(item, rs, tech_level).best = 0 THEN NoEntry
    ELSE rs[item].variants[get_best_recipe(item, rs, tech_level).best]

\* not entry or not isinstance(entry, dict) or all(k.startswith("_") for k in entry.keys())
IsLeaf(entry) ==
    \/ entry = NoEntry
    \/ entry.inputs_nested
    \/ entry.inputs = <<>>

\* the items a recipe asks for (of the variant the passes expand)
Edges(rs, x) ==
    IF IsLeaf(FirstEntry(rs, x)) THEN {}
    ELSE { FirstEntry(rs, x).inputs[i].name : i \in 1..Len(FirstEntry(rs, x).inputs) }

\* dict lookup in a sequence of (name, count) pairs
HasKey(pairs, k) == \E i \in 1..Len(pairs) : pairs[i].name = k
Lookup(pairs, k, default) ==
    IF HasKey(pairs, k)
    THEN pairs[CHOOSE i \in 1..Len(pairs) : pairs[i].name = k].count
    ELSE default

\* outputs = entry.get("_outputs", {}); output_count = outputs.get(item, 1)
OutputCount(entry, item) == Lookup(entry.outputs, item, 1)

\* the calls of the for loop: recurse(sub, count * crafts_needed)
Children(entry, crafts_needed) ==
    [i \in 1..Len(entry.inputs) |->
        [item |-> entry.inputs[i].name, qty |-> entry.inputs[i].count * crafts_needed]]

Running == pc \in {"raw", "full", "tree"}

\* a visit that leaves the working inventory as it found it
ReserveNothing(inv, item, have, qty_needed) == inv

\* inventory[item] = max(0, have - qty_needed)
Reserve(inv, item, have, qty_needed) == Put(inv, item, Max(0, have - qty_needed))

\* a pass that is handed the loaded dict itself
WorksOnCopyNever(mode) == FALSE

\* is the dict the pass mutates a copy of the loaded one:
\* raw: calculate_raw_materials(..., inventory.copy()) (gui.py 345);
\* full: inventory = inventory.copy() (gui.py 362);
\* tree: recurse works on the loaded dict (gui.py 453, 479)
WorksOnCopy(mode) == mode \in {"raw", "full"}

\* the loaded dict after a step of the pass that leaves `working` behind
Loaded(mode, loaded, working) == IF WorksOnCopy(mode) THEN loaded ELSE working

\* totals[item] = totals.get(item, 0) + qty_needed, for the call with locals v
RecordedIfShort(totals, v) ==
    IF v.remaining = 0 THEN totals
    ELSE Put(totals, v.item, Get(totals, v.item, 0) + v.qty_needed)

\* a total of what is still to be obtained rather than of what is asked for
RecordedRemaining(totals, v) == Put(totals, v.item, Get(totals, v.item, 0) + v.remaining)

Recorded(totals, v) == Put(totals, v.item, Get(totals, v.item, 0) + v.qty_needed)

\* the next call to make: the first pending call of the innermost frame
NextCall == stack[Len(stack)].pending[1]

\* a pass that goes on to the batch computation whatever is left to make
ReachesBatchCovered(mode, entry, remaining) == ~IsLeaf(entry)

\* does the call reach the batch computation: not for a leaf, and full mode
\* returns early when remaining = 0 (gui.py 382-383), before the leaf test
ReachesBatch(mode, entry, remaining) ==
    /\ ~IsLeaf(entry)
    /\ mode = "full" => remaining # 0

\* does the call go on to the loop over the inputs: the tree view returns
\* when the item is not among the outputs of its recipe (gui.py 503)
Descends(mode, item, entry, remaining) ==
    /\ ReachesBatch(mode, entry, remaining)
    /\ mode = "tree" => HasKey(entry.outputs, item)

\* the locals of one call of the recursive function; used is the position of
\* the variant taken from the store (0 when the item has none)
Visit(mode, item, qty, entry, used) ==
    LET have == Get(inventory, item, 0)
        remaining == Max(0, qty - have)
        batch == ReachesBatch(mode, entry, remaining)
    IN [item |-> item, qty_needed |-> qty, have |-> have, remaining |-> remaining,
        depth |-> Len(stack), leaf |-> IsLeaf(entry), used |-> used,
        descend |-> Descends(mode, item, entry, remaining),
        output_count |-> IF batch THEN OutputCount(entry, item) ELSE 0,
        crafts_needed |-> IF batch /\ OutputCount(entry, item) # 0
                          THEN CeilDiv(remaining, OutputCount(entry, item)) ELSE 0,
        inputs |-> IF Descends(mode, item, entry, remaining) THEN entry.inputs ELSE <<>>]

\* the stack after the call has been made: the call is removed from the
\* caller's loop, the callee's frame (if it descends) is pushed, and every
\* frame whose loop is finished returns
RECURSIVE Unwind(_)
Unwind(st) ==
    IF st = <<>> THEN st
    ELSE IF st[Len(st)].pending = <<>> THEN Unwind(SubSeq(st, 1, Len(st) - 1))
    ELSE st

AfterCall(item, children) ==
    LET caller == [stack[Len(stack)] EXCEPT !.pending = Tail(@)]
        rest == SubSeq(stack, 1, Len(stack) - 1) \o <<caller>>
    IN Unwind(IF children = <<>> THEN rest
              ELSE rest \o <<[item |-> item, pending |-> children]>>)

\* the pass ends when the outermost call has returned
PcAfter(st, mode) == IF st = <<>> THEN "done" ELSE mode

Abort(error) ==
    /\ pc' = error
    /\ stack' = <<>>
    /\ UNCHANGED <<inventory, raw_needed, component_totals, trace>>

\* logic.py 161-185: one call recurse(item, qty_needed) of calculate_raw_materials
RawRecurse ==
    /\ pc = "raw"
    /\ LET item == NextCall.item
           qty_needed == NextCall.qty
       IN IF Len(stack) > MaxDepth THEN Abort("RecursionError")
          ELSE IF item \in DOMAIN recipes /\ recipes[item].variants = <<>>
          THEN Abort("IndexError")
          ELSE LET entry == FirstEntry(recipes, item)
                   v == Visit("raw", item, qty_needed, entry,
                              IF entry = NoEntry THEN 0 ELSE 1)
               IN IF ~v.leaf /\ v.output_count = 0
                  THEN /\ pc' = "ZeroDivisionError"
                       /\ stack' = <<>>
                       /\ inventory' = Reserve(inventory, item, v.have, qty_needed)
                       /\ trace' = Append(trace, v)
                       /\ UNCHANGED <<raw_needed, component_totals>>
                  ELSE /\ inventory' = Reserve(inventory, item, v.have, qty_needed)
                       /\ raw_needed' = IF v.leaf THEN Recorded(raw_needed, v)
                                        ELSE raw_needed
                       /\ trace' = Append(trace, v)
                       /\ stack' = AfterCall(item, IF v.descend
                                                   THEN Children(entry, v.crafts_needed)
                                                   ELSE <<>>)
                       /\ pc' = PcAfter(stack', "raw")
                       /\ UNCHANGED component_totals
    /\ original_inventory' = Loaded("raw", original_inventory, inventory')
    /\ UNCHANGED <<recipes, inventory_file, current_tech_level, last_viewed_recipe,
                   root, sel, sel_prev, editor_inventory, craft,
                   edit>>

\* gui.py 366-399: one call collect_components(item, qty_needed)
CollectComponents ==
    /\ pc = "full"
    /\ LET item == NextCall.item
           qty_needed == NextCall.qty
       IN IF Len(stack) > MaxDepth THEN Abort("RecursionError")
          ELSE IF item \in DOMAIN recipes /\ recipes[item].variants = <<>>
          THEN Abort("IndexError")
          ELSE LET entry == FirstEntry(recipes, item)
                   v == Visit("full", item, qty_needed, entry,
                              IF entry = NoEntry THEN 0 ELSE 1)
               IN /\ inventory' = Reserve(inventory, item, v.have, qty_needed)
                  /\ component_totals' = Recorded(component_totals, v)
                  /\ trace' = Append(trace, v)
                  /\ UNCHANGED raw_needed
                  /\ IF v.descend /\ v.output_count = 0
                     THEN pc' = "ZeroDivisionError" /\ stack' = <<>>
                     ELSE /\ stack' = AfterCall(item, IF v.descend
                                                      THEN Children(entry, v.crafts_needed)
                                                      ELSE <<>>)
                          /\ pc' = PcAfter(stack', "full")
    /\ original_inventory' = Loaded("full", original_inventory, inventory')
    /\ UNCHANGED <<recipes, inventory_file, current_tech_level, last_viewed_recipe,
                   root, sel, sel_prev, editor_inventory, craft,
                   edit>>

\* gui.py 468-513: one call recurse(item, qty_needed) of view_component_tree
TreeRecurse ==
    /\ pc = "tree"
    /\ LET item == NextCall.item
           qty_needed == NextCall.qty
       IN IF Len(stack) > MaxDepth THEN Abort("RecursionError")
          ELSE LET entry == BestEntry(recipes, item, current_tech_level)
                   v == Visit("tree", item, qty_needed, entry,
                              get_best_recipe(item, recipes, current_tech_level).best)
               IN /\ inventory' = Reserve(inventory, item, v.have, qty_needed)
                  /\ trace' = Append(trace, v)
                  /\ UNCHANGED <<raw_needed, component_totals>>
                  /\ IF ~v.leaf /\ v.output_count = 0
                     THEN pc' = "ZeroDivisionError" /\ stack' = <<>>
                     ELSE /\ stack' = AfterCall(item, IF v.descend
                                                      THEN Children(entry, v.crafts_needed)
                                                      ELSE <<>>)
                          /\ pc' = PcAfter(stack', "tree")
    /\ original_inventory' = Loaded("tree", original_inventory, inventory')
    /\ UNCHANGED <<recipes, inventory_file, current_tech_level, last_viewed_recipe,
                   root, sel, sel_prev, editor_inventory, craft,
                   edit>>

\* the frame of the handler, about to make the outermost call
StartStack(name, quantity) ==
    <<[item |-> None, pending |-> <<[item |-> name, qty |-> quantity]>>]>>

\* gui.py 321-435: the Materials button, up to the outermost call of the pass;
\* quantity is the parsed quantity field (unparseable text gives 1)
ViewRawMaterials(name, quantity, show_raw) ==
    /\ pc = "idle"
    /\ last_viewed_recipe' = name
    /\ root' = [name |-> name, quantity |-> quantity,
                mode |-> IF name \notin DOMAIN recipes THEN None
                         ELSE IF show_raw THEN "raw" ELSE "full"]
    /\ raw_needed' = EmptyDict
    /\ component_totals' = EmptyDict
    /\ trace' = <<>>
    /\ IF name \in DOMAIN recipes
       THEN /\ inventory' = inventory_file
            /\ original_inventory' = inventory_file
            /\ stack' = StartStack(name, quantity)
            /\ pc' = IF show_raw THEN "raw" ELSE "full"
       ELSE /\ inventory' = EmptyDict
            /\ original_inventory' = EmptyDict
            /\ stack' = <<>>
            /\ pc' = "done"
    /\ UNCHANGED <<recipes, inventory_file, current_tech_level, sel, sel_prev, editor_inventory, craft, edit>>

\* gui.py 439-466: the View Tree button, up to the outermost call of the pass
ViewComponentTree(quantity) ==
    /\ pc = "idle"
    /\ raw_needed' = EmptyDict
    /\ component_totals' = EmptyDict
    /\ trace' = <<>>
    /\ IF last_viewed_recipe = None \/ last_viewed_recipe \notin DOMAIN recipes
       THEN /\ root' = NoRoot
            /\ inventory' = EmptyDict
            /\ original_inventory' = EmptyDict
            /\ stack' = <<>>
            /\ pc' = "done"
       ELSE /\ root' = [name |-> last_viewed_recipe, quantity |-> quantity, mode |-> "tree"]
            /\ inventory' = inventory_file
            /\ original_inventory' = inventory_file
            /\ stack' = StartStack(last_viewed_recipe, quantity)
            /\ pc' = "tree"
    /\ UNCHANGED <<recipes, inventory_file, current_tech_level, last_viewed_recipe,
                   sel, sel_prev, editor_inventory, craft,
                   edit>>

\* the handler returns to the event loop (an exception is reported by the
\* event loop, which goes on): its locals are gone
HandlerReturn ==
    /\ pc \in {"done", "crafted", "RecursionError", "IndexError", "ZeroDivisionError",
               "KeyError"}
    /\ pc' = "idle"
    /\ root' = NoRoot
    /\ inventory' = EmptyDict
    /\ original_inventory' = EmptyDict
    /\ raw_needed' = EmptyDict
    /\ component_totals' = EmptyDict
    /\ stack' = <<>>
    /\ trace' = <<>>
    /\ craft' = NoCraft
    /\ UNCHANGED <<recipes, inventory_file, current_tech_level, last_viewed_recipe,
                   sel, sel_prev, editor_inventory,
                   edit>>

\* gui.py 663: the tech level menu
SetTechLevel(t) ==
    /\ pc = "idle"
    /\ current_tech_level' = t
    /\ UNCHANGED <<recipes, inventory_file, last_viewed_recipe, pc, root, inventory,
                   original_inventory,
                   raw_needed, component_totals, stack, trace, sel, sel_prev,
                   editor_inventory, craft,
                   edit>>

----------------------------------------------------------------------------
(* Inputs of the passes: stores over three items, A craftable from B and   *)
(* L, B craftable from L (or from A, which closes a cycle), L raw          *)

InputChoices(x) ==
    IF x = "A"
    THEN { <<Pair("B", c)>> : c \in 1..MaxCount }
         \cup { <<Pair("L", 1)>>, <<Pair("B", 1), Pair("L", 1)>> }
    ELSE { <<Pair("L", c)>> : c \in 1..MaxCount } \cup { <<Pair("A", 1)>> }

OutputChoices(x) == { <<>>, <<Pair(x, MaxOut)>> }

VariantsOf(x, t) ==
    { Variant(TRUE, t, i, o) : i \in InputChoices(x), o \in OutputChoices(x) }

TagPairs == { <<(<<"Any">>), (<<"Any", "MV">>)>>, <<(<<"Any", "MV">>), (<<"Any">>)>> }

\* A: a single recipe object, a list of one MV variant, or a list of two
\* variants of different tiers whose second variant is made from L alone;
\* one recipe object asks for zero B (add_recipe stores any integer count),
\* one variant gives B as a by-product
EntriesOfA ==
    { DictEntry(v) : v \in VariantsOf("A", <<"Any">>) }
    \cup { DictEntry(Variant(TRUE, <<"Any">>, <<Pair("B", 0)>>, <<>>)) }
    \cup { ListEntry(<<Variant(TRUE, <<"Any">>, <<Pair("L", 1)>>,
                               <<Pair("A", MaxOut), Pair("B", 1)>>)>>) }
    \cup { ListEntry(<<Variant(TRUE, <<"Any", "MV">>, i, <<Pair("A", MaxOut)>>)>>) :
             i \in InputChoices("A") }
    \cup { ListEntry(<<Variant(TRUE, tp[1], i, <<Pair("A", MaxOut)>>),
                       Variant(TRUE, tp[2], <<Pair("L", 1)>>, <<Pair("A", MaxOut)>>)>>) :
             i \in InputChoices("A") \ { <<Pair("L", 1)>> }, tp \in TagPairs }

\* B: a list of one variant; one variant declares an output count of zero
\* (add_recipe stores any integer count)
EntriesOfB ==
    { ListEntry(<<v>>) :
        v \in { w \in VariantsOf("B", <<"Any">>) :
                  w.inputs = <<Pair("A", 1)>> => w.outputs = <<>> } }
    \cup { ListEntry(<<Variant(TRUE, <<"Any">>, <<Pair("L", 1)>>, <<Pair("B", 0)>>)>>) }

Stores ==
    { [x \in {"A"} |-> a] : a \in EntriesOfA }
    \cup { [x \in {"A", "B"} |-> IF x = "A" THEN a ELSE b] :
             a \in EntriesOfA, b \in EntriesOfB }

\* loaded inventories: an item is owned MaxHave times, or not owned (no key)
Inventories == UNION { [S -> {MaxHave}] : S \in SUBSET Items }

Init ==
    /\ recipes \in Stores
    /\ inventory_file \in Inventories
    /\ current_tech_level = "MAX"
    /\ last_viewed_recipe = None
    /\ pc = "idle"
    /\ root = NoRoot
    /\ inventory = EmptyDict
    /\ original_inventory = EmptyDict
    /\ raw_needed = EmptyDict
    /\ component_totals = EmptyDict
    /\ stack = <<>>
    /\ trace = <<>>
    /\ sel = NoSel
    /\ sel_prev = NoSel
    /\ editor_inventory = inventory_file
    /\ craft = NoCraft
    /\ edit = NoEdit

NextResolve ==
    \/ \E name \in Items, quantity \in Quantities, show_raw \in BOOLEAN :
          ViewRawMaterials(name, quantity, show_raw)
    \/ \E quantity \in Quantities : ViewComponentTree(quantity)
    \/ \E t \in TechLevels : SetTechLevel(t)
    \/ RawRecurse
    \/ CollectComponents
    \/ TreeRecurse
    \/ HandlerReturn

SpecResolve == Init /\ [][NextResolve]_vars

----------------------------------------------------------------------------
(* inventory_gui.py: the inventory editor and craft_item.  The editor is   *)
(* open from the start: its `inventory` is the loaded inventory file and   *)
(* its `recipes` the store plus an entry for every raw material.           *)

\* inventory_gui.py 384-398: inputs of the (first) recipes that have no recipe
RawMaterials(rs) ==
    { k \in Items : /\ k \notin DOMAIN rs
                    /\ \E n \in DOMAIN rs : HasKey(rs[n].variants[1].inputs, k) }

EditorRecipes(rs) ==
    [x \in (DOMAIN rs) \cup RawMaterials(rs) |->
        IF x \in DOMAIN rs THEN rs[x]
        ELSE DictEntry(Variant(TRUE, <<"Raw", "Any">>, <<>>, <<>>))]

\* lines 317-323: the first variant that lists the selected tag, 0 for None
MatchingVariant(recipe_variants, selected_tag) ==
    IF \E i \in 1..Len(recipe_variants) : selected_tag \in Range(TagsOf(recipe_variants[i]))
    THEN SetMin({ i \in 1..Len(recipe_variants) :
                    selected_tag \in Range(TagsOf(recipe_variants[i])) })
    ELSE 0

\* lines 337-341: required[k] = v * crafts_needed
Required(recipe, crafts_needed) ==
    [i \in 1..Len(recipe.inputs) |->
        Pair(recipe.inputs[i].name, recipe.inputs[i].count * crafts_needed)]

\* a report that stops at the first short input
RECURSIVE MissingFirst(_, _, _)
MissingFirst(inv, required, i) ==
    IF i > Len(required) THEN <<>>
    ELSE IF Get(inv, required[i].name, 0) < required[i].count
    THEN <<[name |-> required[i].name, need |-> required[i].count,
            have |-> Get(inv, required[i].name, 0)]>>
    ELSE MissingFirst(inv, required, i + 1)

\* lines 344-345: the inputs of which less than required is owned
RECURSIVE Missing(_, _, _)
Missing(inv, required, i) ==
    IF i > Len(required) THEN <<>>
    ELSE (IF Get(inv, required[i].name, 0) < required[i].count
          THEN <<[name |-> required[i].name, need |-> required[i].count,
                  have |-> Get(inv, required[i].name, 0)]>>
          ELSE <<>>)
         \o Missing(inv, required, i + 1)

Remove(d, k) == [x \in (DOMAIN d) \ {k} |-> d[x]]

\* lines 352-355: inventory[k] -= v, del inventory[k] when <= 0; the
\* subscript raises KeyError on a key the inventory does not have
RECURSIVE Deduct(_, _, _)
Deduct(inv, required, i) ==
    IF i > Len(required) THEN [inv |-> inv, error |-> None]
    ELSE IF required[i].name \notin DOMAIN inv THEN [inv |-> inv, error |-> "KeyError"]
    ELSE LET left == inv[required[i].name] - required[i].count
         IN Deduct(IF left <= 0 THEN Remove(inv, required[i].name)
                   ELSE Put(inv, required[i].name, left),
                   required, i + 1)

\* a credit of the first declared output only
AddOutputsFirst(inv, outputs, crafts_needed, i) ==
    IF outputs = <<>> THEN inv
    ELSE Put(inv, outputs[1].name,
             Get(inv, outputs[1].name, 0) + outputs[1].count * crafts_needed)

\* lines 358-360: every declared output is credited
RECURSIVE AddOutputs(_, _, _, _)
AddOutputs(inv, outputs, crafts_needed, i) ==
    IF i > Len(outputs) THEN inv
    ELSE AddOutputs(Put(inv, outputs[i].name,
                        Get(inv, outputs[i].name, 0) + outputs[i].count * crafts_needed),
                    outputs, crafts_needed, i + 1)

\* quantities kept in the editor stay within the bound
WithinStock(inv) == \A k \in DOMAIN inv : -1 <= inv[k] /\ inv[k] <= MaxStock

Failed(status) ==
    /\ craft' = [status |-> status, before |-> editor_inventory, saved |-> inventory_file]
    /\ pc' = "crafted"
    /\ UNCHANGED <<editor_inventory, inventory_file>>

\* inventory_gui.py 278-366: the Craft button with the label "[selected_tag]
\* item" (selected_tag = None: a label without a tag) and the parsed quantity
CraftItem(selected_tag, item, qty) ==
    /\ pc = "idle"
    /\ LET rs == EditorRecipes(recipes) IN
       IF item \notin DOMAIN rs THEN Failed("no recipe")
       ELSE LET recipe_variants == rs[item].variants
                m == MatchingVariant(recipe_variants, selected_tag)
            IN
       IF m = 0 THEN Failed("no matching recipe")
       ELSE LET recipe == recipe_variants[m] IN
       IF ~HasKey(recipe.outputs, item) THEN Failed("not a valid output")
       ELSE LET output_count == Lookup(recipe.outputs, item, 1) IN
       IF output_count = 0
       THEN /\ craft' = [status |-> "ZeroDivisionError"]
            /\ pc' = "ZeroDivisionError"
            /\ UNCHANGED <<editor_inventory, inventory_file>>
       ELSE LET crafts_needed == CeilDiv(qty, output_count)
                required == Required(recipe, crafts_needed)
                missing == Missing(editor_inventory, required, 1)
                locals == [item |-> item, tag |-> selected_tag, variant |-> m, qty |-> qty,
                           output_count |-> output_count,
                           crafts_needed |-> crafts_needed, required |-> required,
                           missing |-> missing, before |-> editor_inventory,
                           saved |-> inventory_file]
            IN
       IF missing # <<>>
       THEN /\ craft' = [status |-> "missing"] @@ locals
            /\ pc' = "crafted"
            /\ UNCHANGED <<editor_inventory, inventory_file>>
       ELSE LET d == Deduct(editor_inventory, required, 1) IN
       IF d.error # None
       THEN /\ craft' = [status |-> d.error] @@ locals
            /\ pc' = d.error
            /\ editor_inventory' = d.inv
            /\ WithinStock(editor_inventory')
            /\ UNCHANGED inventory_file
       ELSE /\ craft' = [status |-> "crafted"] @@ locals
            /\ pc' = "crafted"
            /\ editor_inventory' = AddOutputs(d.inv, recipe.outputs, crafts_needed, 1)
            /\ inventory_file' = editor_inventory'
            /\ WithinStock(editor_inventory')
    /\ UNCHANGED <<recipes, current_tech_level, last_viewed_recipe, root, inventory,
                   original_inventory,
                   raw_needed, component_totals, stack, trace, sel, sel_prev,
                   edit>>

CraftTags == {None, "Any", "MV", "Raw"}

Next ==
    \/ NextResolve
    \/ \E selected_tag \in CraftTags, item \in Items, qty \in Quantities :
          CraftItem(selected_tag, item, qty)

\* the program is started on an inventory file that owns nothing, the raw
\* material, the raw material and the intermediate, or all three items;
\* crafting produces the other inventories
InitCraft ==
    /\ Init
    /\ DOMAIN inventory_file \in { {}, {"L"}, {"B", "L"}, Items }

Spec == InitCraft /\ [][Next]_vars

----------------------------------------------------------------------------
(* inventory_gui.py: the buttons of the inventory editor.  Each handler     *)
(* parses the quantity field, changes the editor's `inventory` and saves it *)

\* item in recipe_items or item in raw_materials
Recognized(item) == item \in DOMAIN EditorRecipes(recipes)

LedgerFrame ==
    UNCHANGED <<recipes, current_tech_level, last_viewed_recipe, pc, root, inventory,
                   original_inventory,
                raw_needed, component_totals, stack, trace, sel, sel_prev, craft,
                   edit>>

\* inventory_gui.py 133-163: Set Quantity
UpdateInventory(item, qty) ==
    /\ pc = "idle"
    /\ IF Recognized(item)
       THEN /\ editor_inventory' = IF qty = 0 THEN Remove(editor_inventory, item)
                                   ELSE Put(editor_inventory, item, qty)
            /\ inventory_file' = editor_inventory'
       ELSE UNCHANGED <<editor_inventory, inventory_file>>
    /\ LedgerFrame

\* inventory_gui.py 167-198: Add
AddToInventory(item, qty) ==
    /\ pc = "idle"
    /\ IF qty > 0 /\ Recognized(item)
       THEN /\ editor_inventory' =
                  Put(editor_inventory, item, Get(editor_inventory, item, 0) + qty)
            /\ WithinStock(editor_inventory')
            /\ inventory_file' = editor_inventory'
       ELSE UNCHANGED <<editor_inventory, inventory_file>>
    /\ LedgerFrame

\* inventory_gui.py 202-241: Subtract
SubtractFromInventory(item, qty) ==
    /\ pc = "idle"
    /\ IF qty > 0 /\ item \in DOMAIN editor_inventory
       THEN /\ editor_inventory' =
                  IF editor_inventory[item] - qty <= 0 THEN Remove(editor_inventory, item)
                  ELSE Put(editor_inventory, item, editor_inventory[item] - qty)
            /\ inventory_file' = editor_inventory'
       ELSE UNCHANGED <<editor_inventory, inventory_file>>
    /\ LedgerFrame

\* inventory_gui.py 244-249: Clear, confirmed
ClearInventory ==
    /\ pc = "idle"
    /\ editor_inventory' = EmptyDict
    /\ inventory_file' = editor_inventory'
    /\ LedgerFrame

\* quantity fields of the editor: low enough for a negative batch count
LedgerQuantities == Quantities \cup {-MaxOut}

NextLedger ==
    \/ \E item \in Items, qty \in Quantities : UpdateInventory(item, qty)
    \/ \E item \in Items, qty \in Quantities : AddToInventory(item, qty)
    \/ \E item \in Items, qty \in Quantities : SubtractFromInventory(item, qty)
    \/ ClearInventory
    \/ \E selected_tag \in CraftTags, item \in Items, qty \in LedgerQuantities :
          CraftItem(selected_tag, item, qty)
    \/ HandlerReturn

\* the editor is opened on the stores in which some variant of A declares A
\* as an output (only these can be crafted), B is not made from A and B, if
\* it has a recipe, declares B as an output
Craftable(rs, x) ==
    \E i \in 1..Len(rs[x].variants) : HasKey(rs[x].variants[i].outputs, x)

InitLedger ==
    /\ Init
    /\ Craftable(recipes, "A")
    /\ \A x \in DOMAIN recipes : "A" \notin Edges(recipes, x)
    /\ "B" \in DOMAIN recipes => Craftable(recipes, "B")

SpecLedger == InitLedger /\ [][NextLedger]_vars

----------------------------------------------------------------------------
(* Variant selection: properties *)

TierIndex(t) == ListIndex(tag_order, t)

\* indices in the tier order of the recognized tags of a variant
RecognizedIdx(r) ==
    { ListIndex(tag_order, t) : t \in Range(TagsOf(r)) \cap Range(tag_order) }

\* variants of a list whose highest recognized tag exists and is <= tier
EligibleAt(vs, tier) ==
    { i \in 1..Len(vs) : /\ RecognizedIdx(vs[i]) # {}
                         /\ SetMax(RecognizedIdx(vs[i])) <= TierIndex(tier) }

\* first variant, in list order, among the eligible ones of greatest index
FirstHighest(vs, tier) ==
    IF EligibleAt(vs, tier) = {} THEN 0
    ELSE LET top == SetMax({ SetMax(RecognizedIdx(vs[i])) : i \in EligibleAt(vs, tier) })
         IN SetMin({ i \in EligibleAt(vs, tier) : SetMax(RecognizedIdx(vs[i])) = top })

SelOnList == sel.name \in DOMAIN recipes /\ recipes[sel.name].shape = "list"

\* C1: on a list entry get_best_recipe returns the first variant of greatest
\* highest-recognized-tag index among those eligible at the tier, and
\* (None, None) when none is eligible, the list is empty or the item is absent.
C1_BestOfEligible ==
    /\ (sel.name # None /\ sel.name \notin DOMAIN recipes)
          => (sel.best = 0 /\ sel.tag = None)
    /\ SelOnList =>
          /\ sel.best = FirstHighest(recipes[sel.name].variants, sel.tier)
          /\ (sel.best = 0 => sel.tag = None)
          /\ (sel.best # 0 =>
                TierIndex(sel.tag) = SetMax(RecognizedIdx(recipes[sel.name].variants[sel.best])))

\* a tie between two eligible variants of greatest index, resolved to the first
C1_Witness ==
    /\ SelOnList
    /\ sel.best # 0
    /\ \E j \in EligibleAt(recipes[sel.name].variants, sel.tier) :
          /\ j > sel.best
          /\ SetMax(RecognizedIdx(recipes[sel.name].variants[j])) = TierIndex(sel.tag)
    /\ \E k \in 1..Len(recipes[sel.name].variants) :
          k \notin EligibleAt(recipes[sel.name].variants, sel.tier)

\* highest recognized tag of a variant, an untagged variant counting as "Any"
HighestOrAny(r) == IF RecognizedIdx(r) = {} THEN 0 ELSE SetMax(RecognizedIdx(r))

\* C2: whatever the shape of the entry, a returned variant is eligible at the
\* queried tier: its highest recognized tag is not above the tier.
C2_ReturnedIsEligible ==
    (sel.name \in DOMAIN recipes /\ sel.best # 0)
       => HighestOrAny(recipes[sel.name].variants[sel.best]) <= TierIndex(sel.tier)

\* C3: tier monotonicity: a variant found at a tier is still found at every
\* higher tier, with a matched tag that is not lower.
C3_TierMonotone ==
    (/\ sel_prev.name # None
     /\ sel_prev.name = sel.name
     /\ TierIndex(sel_prev.tier) <= TierIndex(sel.tier)
     /\ sel_prev.best # 0)
       => (sel.best # 0 /\ TierIndex(sel.tag) >= TierIndex(sel_prev.tag))

\* found at the lower tier, and a strictly higher match at the higher tier
C3_Witness ==
    /\ sel_prev.name = sel.name
    /\ SelOnList
    /\ TierIndex(sel_prev.tier) < TierIndex(sel.tier)
    /\ sel_prev.best # 0
    /\ sel.best # 0
    /\ TierIndex(sel.tag) > TierIndex(sel_prev.tag)

\* C4: a variant without tags (no "_tags" key, or an empty list) counts as
\* tagged "Any": when no other variant of the list is eligible it is returned
\* with matched tag "Any".
C4_UntaggedIsAny ==
    (/\ SelOnList
     /\ EligibleAt(recipes[sel.name].variants, sel.tier) = {}
     /\ \E i \in 1..Len(recipes[sel.name].variants) :
           TagsOf(recipes[sel.name].variants[i]) = <<>>)
       => /\ sel.best # 0
          /\ TagsOf(recipes[sel.name].variants[sel.best]) = <<>>
          /\ sel.tag = "Any"

----------------------------------------------------------------------------
(* Resolution passes: properties *)

LastVisit == trace[Len(trace)]

\* C5: raw mode and full mode expand every visited item with the variant
\* get_best_recipe selects for the current tech level: the inputs descended
\* into are those of that variant, and an item without an eligible variant
\* is a leaf.
C5_ExpandsBestVariant ==
    (root.mode \in {"raw", "full"} /\ trace # <<>>) =>
        LET v == LastVisit
            best == BestEntry(recipes, v.item, current_tech_level)
        IN /\ v.leaf = IsLeaf(best)
           /\ v.descend => v.inputs = best.inputs

\* the least n with n * o >= r
LeastBatches(r, o) == CHOOSE n \in 0..r : n * o >= r /\ (n = 0 \/ (n - 1) * o < r)

\* the root has one variant, made from c of one item L that is not craftable,
\* and no L is owned
SingleLevel ==
    /\ root.mode = "raw"
    /\ Len(recipes[root.name].variants) = 1
    /\ ~IsLeaf(recipes[root.name].variants[1])
    /\ Len(recipes[root.name].variants[1].inputs) = 1
    /\ recipes[root.name].variants[1].inputs[1].name # root.name
    /\ IsLeaf(FirstEntry(recipes, recipes[root.name].variants[1].inputs[1].name))
    /\ Get(inventory_file, recipes[root.name].variants[1].inputs[1].name, 0) = 0
    /\ OutputCount(recipes[root.name].variants[1], root.name) >= 1

\* C6: for a single-level recipe giving o of X per craft from c of leaf L,
\* a request for q of X with h owned and no L owned returns exactly
\* {L: c * ceil(max(0, q - h) / o)}.
C6_SingleLevelResult ==
    (pc = "done" /\ root.mode = "raw" /\ SingleLevel) =>
        LET e == recipes[root.name].variants[1]
            L == e.inputs[1].name
            c == e.inputs[1].count
            o == OutputCount(e, root.name)
            h == Get(inventory_file, root.name, 0)
        IN raw_needed = [x \in {L} |->
                           c * LeastBatches(Max(0, root.quantity - h), o)]

\* part of X is owned and the rest needs a batch that is not full
C6_Witness ==
    /\ pc = "done" /\ root.mode = "raw" /\ SingleLevel
    /\ Get(inventory_file, root.name, 0) >= 1
    /\ root.quantity > Get(inventory_file, root.name, 0)
    /\ OutputCount(recipes[root.name].variants[1], root.name) >= 2
    /\ (root.quantity - Get(inventory_file, root.name, 0))
          % OutputCount(recipes[root.name].variants[1], root.name) # 0
    /\ \E x \in DOMAIN raw_needed : raw_needed[x] >= 1

\* n batches of o cover r and no whole batch is spare
BatchFits(n, o, r) == n * o >= r /\ (n = 0 \/ (n - 1) * o < r)

C8_InventoryNeverGrows ==
    (root.mode \in {"raw", "full", "tree"}) =>
        /\ \A k \in DOMAIN inventory : inventory[k] \in Nat
        /\ trace # <<>> => inventory[LastVisit.item] <= LastVisit.have

\* total demand of the calls of trace[from..] for item
RECURSIVE Demand(_, _, _)
Demand(tr, item, from) ==
    IF from > Len(tr) THEN 0
    ELSE (IF tr[from].item = item THEN tr[from].qty_needed ELSE 0)
         + Demand(tr, item, from + 1)

\* C9 (as stated): the full-mode aggregate holds for the root only the demand
\* of deeper calls: the requested quantity of the root is not recorded.
C9_RootExcluded ==
    (pc = "done" /\ root.mode = "full") =>
        IF \E i \in 2..Len(trace) : trace[i].item = root.name
        THEN component_totals[root.name] = Demand(trace, root.name, 2)
        ELSE root.name \notin DOMAIN component_totals

\* C9 (amended): the full-mode aggregate includes the root: its total is the
\* requested quantity plus the demand of deeper calls for it.
C9_RootIncluded ==
    (pc = "done" /\ root.mode = "full") =>
        /\ root.name \in DOMAIN component_totals
        /\ component_totals[root.name] = root.quantity + Demand(trace, root.name, 2)

\* a full-mode pass over a root with components, the root fully owned or not
C9_Witness ==
    /\ pc = "done" /\ root.mode = "full"
    /\ root.quantity >= 1
    /\ Len(trace) >= 2
    /\ component_totals[root.name] = root.quantity

\* C10: a pass on a cyclic recipe graph stops at the repeated item with a
\* cycle error: no item is ever being resolved inside its own resolution, and
\* the recursion never runs into the interpreter's limit.
C10_CycleReported ==
    /\ pc # "RecursionError"
    /\ \A i, j \in 1..Len(stack) : i < j => stack[i].item # stack[j].item

----------------------------------------------------------------------------
(* Resolution passes: malformed data, mode cross-check *)

\* C11: calculate_raw_materials never raises on missing or malformed recipe
\* data: an absent item or an all-metadata recipe is a leaf that is recorded
\* and not descended into, and a recipe whose outputs lack the item counts as
\* producing 1 per craft and is descended into.
C11_NeverRaises ==
    (root.mode = "raw") =>
        /\ pc \notin {"IndexError", "ZeroDivisionError"}
        /\ \A i \in 1..Len(trace) :
              LET v == trace[i]
                  e == FirstEntry(recipes, v.item)
              IN /\ IsLeaf(e) => (v.leaf /\ ~v.descend)
                 /\ (~IsLeaf(e) /\ ~HasKey(e.outputs, v.item))
                       => (v.output_count = 1 /\ v.descend)

\* logic.py 155-188 as a function of its arguments: the calls still to make
\* (innermost first), the working inventory and raw_needed so far; the
\* result is raw_needed and the exception raised, if any
RECURSIVE RawCalls(_, _, _, _, _)
RawCalls(calls, inv, totals, rs, fuel) ==
    IF calls = <<>> THEN [error |-> None, raw_needed |-> totals]
    ELSE IF fuel = 0 THEN [error |-> "RecursionError", raw_needed |-> totals]
    ELSE LET item == calls[1].item
             qty_needed == calls[1].qty
             entry == FirstEntry(rs, item)
             have == Get(inv, item, 0)
             remaining == Max(0, qty_needed - have)
             spent == Put(inv, item, Max(0, have - qty_needed))
         IN IF IsLeaf(entry)
            THEN RawCalls(Tail(calls), spent,
                          Put(totals, item, Get(totals, item, 0) + qty_needed), rs, fuel - 1)
            ELSE IF OutputCount(entry, item) = 0
            THEN [error |-> "ZeroDivisionError", raw_needed |-> totals]
            ELSE RawCalls(Children(entry, CeilDiv(remaining, OutputCount(entry, item)))
                             \o Tail(calls),
                          spent, totals, rs, fuel - 1)

\* calls enough for every acyclic store of the pool
MaxCalls == 16

calculate_raw_materials(name, quantity, rs, inv) ==
    RawCalls(<<[item |-> name, qty |-> quantity]>>, inv, EmptyDict, rs, MaxCalls)

RECURSIVE Reach(_, _, _)
Reach(rs, S, n) ==
    IF n = 0 THEN S ELSE Reach(rs, S \cup UNION { Edges(rs, x) : x \in S }, n - 1)

Below(rs, x) == Reach(rs, Edges(rs, x), Cardinality(Items))

Acyclic(rs) == \A x \in Items : x \notin Below(rs, x)

\* no item is reached from root by two branches
NoSharing(rs, r) ==
    \A x \in {r} \cup Below(rs, r) :
        \A c1, c2 \in Edges(rs, x) :
            c1 # c2 => ({c1} \cup Below(rs, c1)) \cap ({c2} \cup Below(rs, c2)) = {}

LeavesOf(d) == { x \in DOMAIN d : IsLeaf(FirstEntry(recipes, x)) }

CrossCheckCase ==
    /\ pc = "done" /\ root.mode = "full"
    /\ root.quantity >= 1
    /\ \A k \in DOMAIN inventory_file : inventory_file[k] = 0
    /\ Acyclic(recipes)
    /\ NoSharing(recipes, root.name)

\* C12: on an acyclic store without shared items, an empty inventory and a
\* positive quantity, the raw-mode result and the full-mode result have the
\* same leaf items with the same totals.
C12_ModesAgree ==
    CrossCheckCase =>
        LET raw == calculate_raw_materials(root.name, root.quantity, recipes, inventory_file)
        IN /\ raw.error = None
           /\ DOMAIN raw.raw_needed = LeavesOf(component_totals)
           /\ \A x \in DOMAIN raw.raw_needed : raw.raw_needed[x] = component_totals[x]

----------------------------------------------------------------------------
(* craft_item and the ledger: properties *)

\* the craft got as far as the batch count
CraftRan == craft.status \in {"crafted", "missing", "KeyError"}

\* the variant craft_item took
CraftRecipe == EditorRecipes(recipes)[craft.item].variants[craft.variant]

\* positions of the inputs of which less than per-craft * crafts_needed was owned
ShortInputs ==
    { i \in 1..Len(CraftRecipe.inputs) :
        Get(craft.before, CraftRecipe.inputs[i].name, 0)
           < CraftRecipe.inputs[i].count * craft.crafts_needed }

\* C13: when at least one input is short, craft_item fails, its report lists
\* every short input with the needed and the owned amount, and the ledger
\* (in memory and on disk) is what it was before.
C13_ShortfallReported ==
    CraftRan =>
        IF ShortInputs = {} THEN craft.status # "missing"
        ELSE /\ craft.status = "missing"
             /\ Len(craft.missing) = Cardinality(ShortInputs)
             /\ \A i \in ShortInputs : \E j \in 1..Len(craft.missing) :
                   craft.missing[j] =
                      [name |-> CraftRecipe.inputs[i].name,
                       need |-> CraftRecipe.inputs[i].count * craft.crafts_needed,
                       have |-> Get(craft.before, CraftRecipe.inputs[i].name, 0)]
             /\ editor_inventory = craft.before
             /\ inventory_file = craft.saved

\* two inputs are short while something else is owned
C13_Witness ==
    /\ craft.status = "missing"
    /\ Len(craft.missing) >= 2
    /\ craft.before # EmptyDict

\* C14: a successful craft of q >= 1 of X with n = ceil(q / outputs[X])
\* takes per-craft * n of every input, gives output * n of every declared
\* output, leaves every other entry alone and saves the new ledger.
C14_CraftDelta ==
    (craft.status = "crafted" /\ craft.qty >= 1) =>
        LET r == CraftRecipe
            n == LeastBatches(craft.qty, Lookup(r.outputs, craft.item, 0))
        IN /\ \A k \in Items :
                 Get(editor_inventory, k, 0) =
                    Get(craft.before, k, 0) - Lookup(r.inputs, k, 0) * n
                                            + Lookup(r.outputs, k, 0) * n
           /\ \A k \in Items :
                 (~HasKey(r.inputs, k) /\ ~HasKey(r.outputs, k)) =>
                    /\ k \in DOMAIN editor_inventory <=> k \in DOMAIN craft.before
                    /\ k \in DOMAIN craft.before => editor_inventory[k] = craft.before[k]
           /\ inventory_file = editor_inventory

\* a craft with a by-product that uses up an input while a third item is owned
C14_Witness ==
    /\ craft.status = "crafted" /\ craft.qty >= 1
    /\ Len(CraftRecipe.outputs) >= 2
    /\ \E i \in 1..Len(CraftRecipe.inputs) :
          /\ CraftRecipe.inputs[i].name \in DOMAIN craft.before
          /\ CraftRecipe.inputs[i].name \notin DOMAIN editor_inventory
    /\ \E k \in DOMAIN craft.before : ~HasKey(CraftRecipe.inputs, k)

\* the ledger after the whole transaction of the craft: every input
\* deducted, every output credited
FullyApplied ==
    \A k \in Items :
        Get(editor_inventory, k, 0) =
           Get(craft.before, k, 0)
              - Lookup(CraftRecipe.inputs, k, 0) * craft.crafts_needed
              + Lookup(CraftRecipe.outputs, k, 0) * craft.crafts_needed

\* C15: craft_item is all-or-nothing for every quantity and every outcome:
\* afterwards the ledger is the ledger before, or has every input deducted
\* and every output credited.
C15_AllOrNothing ==
    CraftRan => (editor_inventory = craft.before \/ FullyApplied)

\* C16: craft_item commits only the variant whose own tier (its highest
\* recognized tag) is the selected tag; when no variant matches it fails
\* and the ledger is unchanged.
C16_ExactTier ==
    /\ CraftRan =>
          LET idx == RecognizedIdx(CraftRecipe)
          IN idx # {} /\ tag_order[SetMax(idx) + 1] = craft.tag
    /\ craft.status = "no matching recipe" =>
          (editor_inventory = craft.before /\ inventory_file = craft.saved)

\* C17: from a ledger of positive quantities, after any sequence of editor
\* operations with any integer quantities every entry of the ledger is a
\* positive integer.
C17_LedgerPositive ==
    /\ \A k \in DOMAIN editor_inventory : editor_inventory[k] >= 1
    /\ \A k \in DOMAIN inventory_file : inventory_file[k] >= 1


----------------------------------------------------------------------------
(* Resolution passes: what is visible of their deductions *)

\* a step of a resolution pass, the step that starts or ends it included
PassStep == root.mode # None \/ root'.mode # None

\* C18: the deductions of a resolution pass are not visible outside it: in
\* the raw and the full branch of view_raw_materials the dict the handler
\* loaded, which the have/need display reads after the pass, still equals
\* the inventory file, and no step of a raw, full or tree pass changes the
\* inventory file.
C18_DeductionsPrivate ==
    /\ [](root.mode \in {"raw", "full"} => original_inventory = inventory_file)
    /\ [][PassStep => inventory_file' = inventory_file]_vars

\* a finished raw or full pass that has deducted from its working inventory
C18_Witness ==
    /\ pc = "done"
    /\ root.mode \in {"raw", "full"}
    /\ inventory # original_inventory
    /\ \E k \in DOMAIN original_inventory :
          original_inventory[k] > 0 /\ inventory[k] < original_inventory[k]


\* the visits of a finished or running full pass to a craftable item whose
\* demand the working inventory covered
CoveredVisits ==
    { i \in 1..Len(trace) :
        /\ trace[i].item \in DOMAIN recipes
        /\ ~IsLeaf(FirstEntry(recipes, trace[i].item))
        /\ trace[i].remaining = 0 }

\* the statement as first read: a covered craftable item is still expanded,
\* each input of its recipe being visited with demand 0 and so appearing in
\* the full aggregate
C19_CoveredExpanded ==
    (root.mode = "full" /\ pc = "done") =>
        \A i \in CoveredVisits :
            LET inputs == FirstEntry(recipes, trace[i].item).inputs
            IN /\ i < Len(trace)
               /\ trace[i + 1].depth = trace[i].depth + 1
               /\ trace[i + 1].item = inputs[1].name
               /\ trace[i + 1].qty_needed = 0
               /\ \A k \in 1..Len(inputs) : inputs[k].name \in DOMAIN component_totals

\* C19: in full mode a craftable item whose demand is fully covered by the
\* working inventory (remaining = 0) is recorded with its demand and is not
\* expanded: the call returns before the batch computation, the next call of
\* the pass (if any) is not one of its inputs' calls, and when the covered
\* item is the requested one the aggregate holds that item alone.
C19_CoveredNotExpanded ==
    root.mode = "full" =>
        /\ \A i \in CoveredVisits :
              /\ trace[i].crafts_needed = 0
              /\ trace[i].inputs = <<>>
              /\ trace[i].item \in DOMAIN component_totals
              /\ i < Len(trace) => trace[i + 1].depth <= trace[i].depth
        /\ (pc = "done" /\ 1 \in CoveredVisits) =>
              component_totals = Put(EmptyDict, root.name, root.quantity)

\* a finished full pass for an owned craftable item, requested at most as
\* often as it is owned
C19_Witness ==
    /\ root.mode = "full"
    /\ pc = "done"
    /\ 1 \in CoveredVisits
    /\ trace[1].qty_needed >= 1
    /\ trace[1].have >= trace[1].qty_needed


\* the leaf items a pass has visited
VisitedLeaves == { trace[i].item : i \in { j \in 1..Len(trace) : trace[j].leaf } }

\* C20: the raw-mode result contains exactly the leaf items visited in the
\* pass and no craftable intermediate; the value of each leaf is the sum of
\* qty_needed over all visits to it, not reduced by the owned quantity of the
\* leaf.
C20_RawResult ==
    (root.mode = "raw" /\ pc = "done") =>
        /\ DOMAIN raw_needed = VisitedLeaves
        /\ \A k \in DOMAIN raw_needed :
              /\ IsLeaf(FirstEntry(recipes, k))
              /\ raw_needed[k] = Demand(trace, k, 1)

\* a finished raw pass that reached one leaf twice, the leaf being owned and
\* one of the visits fully covered by what is owned
C20_Witness ==
    /\ root.mode = "raw"
    /\ pc = "done"
    /\ \E i, j \in 1..Len(trace) :
          /\ i < j
          /\ trace[i].leaf /\ trace[j].leaf
          /\ trace[i].item = trace[j].item
          /\ trace[i].qty_needed >= 1
          /\ trace[i].have >= trace[i].qty_needed
          /\ trace[j].qty_needed >= 1
          /\ raw_needed[trace[i].item] = trace[i].qty_needed + trace[j].qty_needed


----------------------------------------------------------------------------
(* Resolution passes: shared stock *)

\* the stock a visit applied to its demand
Applied(v) == v.qty_needed - v.remaining

\* the stock applied to item by the visits from..to of the pass
RECURSIVE AppliedSum(_, _, _, _)
AppliedSum(tr, item, from, to) ==
    IF from > to THEN 0
    ELSE (IF tr[from].item = item THEN Applied(tr[from]) ELSE 0)
         + AppliedSum(tr, item, from + 1, to)

\* C21: shared stock is reserved, never counted twice: within one pass, for
\* every item the stock applied over all its visits (qty_needed - remaining)
\* is at most what was owned of the item when the pass started, and every
\* visit sees exactly the stock the earlier visits left.
C21_StockReserved ==
    root.mode # None =>
        \A j \in 1..Len(trace) :
            LET item == trace[j].item
                owned == Get(inventory_file, item, 0)
            IN /\ trace[j].have = owned - AppliedSum(trace, item, 1, j - 1)
               /\ AppliedSum(trace, item, 1, Len(trace)) <= owned

\* a pass that reached an owned item twice with positive demand: the first
\* visit used the stock up, the second found none
C21_Witness ==
    /\ pc = "done"
    /\ \E i, j \in 1..Len(trace) :
          /\ i < j
          /\ trace[i].item = trace[j].item
          /\ trace[i].have >= 1
          /\ trace[i].qty_needed >= trace[i].have
          /\ trace[j].qty_needed >= 1
          /\ trace[j].have = 0
          /\ trace[j].remaining = trace[j].qty_needed


----------------------------------------------------------------------------
(* gui.py: the recipe store editor (add_recipe, delete_selected_recipe)     *)

MaxList == 2         \* variants per list in the store editor's runs

\* a dict built from a sequence of (name, count) pairs
AsDict(pairs) == [n \in { pairs[i].name : i \in 1..Len(pairs) } |-> Lookup(pairs, n, 0)]

\* existing.get("_outputs"): None when the key is absent
OutputsOf(r) == IF r.outputs = <<>> THEN None ELSE AsDict(r.outputs)

\* strip_metadata(d): the keys of the recipe object that do not start with "_"
strip_metadata(r) == IF r.inputs_nested THEN EmptyDict ELSE AsDict(r.inputs)

\* lines 190-196: the position of the first variant with the same outputs and
\* the same components, 0 when there is none
SameStructure(variants, components) ==
    LET hits == { i \in 1..Len(variants) :
                    /\ OutputsOf(variants[i]) = OutputsOf(components)
                    /\ strip_metadata(variants[i]) = strip_metadata(components) }
    IN IF hits = {} THEN 0 ELSE SetMin(hits)

\* lines 173-174: components["_tags"]
TagsFor(selected_tag) == IF selected_tag = "Any" THEN <<"Any">> ELSE <<"Any", selected_tag>>

\* lines 182-212: the entry of the item after the insert or update
Inserted(rs, item, components, selected_tag) ==
    IF item \notin DOMAIN rs THEN ListEntry(<<components>>)
    ELSE IF rs[item].shape = "list"
    THEN LET i == SameStructure(rs[item].variants, components)
         IN IF i # 0
            THEN ListEntry([rs[item].variants EXCEPT ![i] = components])
            ELSE ListEntry(Append(rs[item].variants, components))
    ELSE LET old == rs[item].variants[1]
         IN IF selected_tag \in Range(TagsOf(old))
            THEN ListEntry(<<components>>)
            ELSE ListEntry(<<old, components>>)

\* gui.py 139-218: the Add Recipe button with an item name, parsed components
\* and outputs fields (int() accepts any integer) and the tech level of the
\* form; an empty outputs field ends the handler with an error box
add_recipe(item, inputs, outputs, selected_tag) ==
    /\ pc = "idle"
    /\ edit' = [op |-> IF outputs = <<>> THEN "add refused" ELSE "add",
                name |-> item, tag |-> selected_tag,
                shape |-> IF item \in DOMAIN recipes THEN recipes[item].shape ELSE None]
    /\ IF outputs = <<>> THEN UNCHANGED recipes
       ELSE LET components == Variant(TRUE, TagsFor(selected_tag), inputs, outputs)
            IN /\ Len(Inserted(recipes, item, components, selected_tag).variants) <= MaxList
               /\ recipes' = Put(recipes, item,
                                 Inserted(recipes, item, components, selected_tag))
    /\ UNCHANGED <<inventory_file, current_tech_level, last_viewed_recipe, pc, root,
                   inventory, original_inventory, raw_needed, component_totals, stack,
                   trace, sel, sel_prev, editor_inventory, craft>>

\* a list that keeps an emptied list in the store
PrunedKeepEmpty(rs, name, kept) == Put(rs, name, ListEntry(kept))

\* lines 288-290: if no variants remain, delete the whole item
Pruned(rs, name, kept) ==
    IF kept = <<>> THEN Remove(rs, name) ELSE Put(rs, name, ListEntry(kept))

\* lines 282-294: the store after the confirmed delete
Deleted(rs, name, selected_tag) ==
    IF rs[name].shape = "list"
    THEN Pruned(rs, name,
                SelectSeq(rs[name].variants,
                          LAMBDA r : selected_tag \notin Range(TagsOf(r))))
    ELSE IF selected_tag \in Range(TagsOf(rs[name].variants[1]))
         THEN Remove(rs, name)
         ELSE rs

\* gui.py 71-77: the label "[tag] name" the dropdown offers for an item
Offered(rs, name, tech_level) ==
    /\ get_best_recipe(name, rs, tech_level).best # 0
    /\ get_best_recipe(name, rs, tech_level).tag # None

\* gui.py 259-298: the Delete button on the selection "[selected_tag] name",
\* confirmed; the selection is a label of the dropdown
delete_selected_recipe(name) ==
    /\ pc = "idle"
    /\ Offered(recipes, name, current_tech_level)
    /\ recipes' = Deleted(recipes, name,
                          get_best_recipe(name, recipes, current_tech_level).tag)
    /\ edit' = [op |-> "delete", name |-> name,
                tag |-> get_best_recipe(name, recipes, current_tech_level).tag,
                shape |-> recipes[name].shape]
    /\ UNCHANGED <<inventory_file, current_tech_level, last_viewed_recipe, pc, root,
                   inventory, original_inventory, raw_needed, component_totals, stack,
                   trace, sel, sel_prev, editor_inventory, craft>>

\* what the components and outputs fields can hold for an item: components
\* of L with any integer count, one output of the item itself with any
\* integer count, or no output at all
FormFields(item) ==
    { [inputs |-> <<Pair("L", 1)>>, outputs |-> <<Pair(item, 1)>>],
      [inputs |-> <<Pair("L", MaxCount)>>, outputs |-> <<Pair(item, MaxOut)>>],
      [inputs |-> <<Pair("L", 0)>>, outputs |-> <<Pair(item, 1)>>],
      [inputs |-> <<Pair("L", -1)>>, outputs |-> <<Pair(item, 1)>>],
      [inputs |-> <<Pair("L", 1)>>, outputs |-> <<Pair(item, 0)>>],
      [inputs |-> <<Pair("L", 1)>>, outputs |-> <<>>] }

\* the tech level of the form
FormTags == {"Any", "MV"}

\* well-formed stores: empty, or B in the old single-object format
InitialStores ==
    { EmptyDict,
      Put(EmptyDict, "B", DictEntry(Variant(TRUE, <<"Any">>, <<Pair("L", 1)>>,
                                            <<Pair("B", 1)>>))) }

InitStore ==
    /\ recipes \in InitialStores
    /\ inventory_file = EmptyDict
    /\ current_tech_level = "MAX"
    /\ last_viewed_recipe = None
    /\ pc = "idle"
    /\ root = NoRoot
    /\ inventory = EmptyDict
    /\ original_inventory = EmptyDict
    /\ raw_needed = EmptyDict
    /\ component_totals = EmptyDict
    /\ stack = <<>>
    /\ trace = <<>>
    /\ sel = NoSel
    /\ sel_prev = NoSel
    /\ editor_inventory = EmptyDict
    /\ craft = NoCraft
    /\ edit = NoEdit

NextStore ==
    \/ \E f \in FormFields("A"), selected_tag \in FormTags :
          add_recipe("A", f.inputs, f.outputs, selected_tag)
    \/ \E selected_tag \in FormTags :
          add_recipe("B", <<Pair("L", 1)>>, <<Pair("B", 1)>>, selected_tag)
    \/ \E name \in {"A", "B"} : delete_selected_recipe(name)
    \/ \E t \in TechLevels : SetTechLevel(t)

SpecStore == InitStore /\ [][NextStore]_vars


----------------------------------------------------------------------------
(* The recipe store editor: properties *)

\* C22: after any sequence of add_recipe and delete_selected_recipe from a
\* well-formed store, every item of the store maps to a non-empty collection
\* of variants: an item whose last variant is deleted is removed from the
\* store, never left with an empty list.
C22_VariantsNonEmpty ==
    \A item \in DOMAIN recipes : recipes[item].variants # <<>>

\* a delete that took the last variant out of a list: the item is gone
C22_Witness ==
    /\ edit.op = "delete"
    /\ edit.shape = "list"
    /\ edit.name \notin DOMAIN recipes
    /\ DOMAIN recipes # {}


\* C23: after any sequence of add_recipe from a well-formed store no item has
\* two variants that claim the same tier (the same highest tag): an add at a
\* tier one of the variants already claims replaces that variant.
C23_OneVariantPerTier ==
    \A item \in DOMAIN recipes :
        \A i, j \in 1..Len(recipes[item].variants) :
            i < j => HighestOrAny(recipes[item].variants[i])
                       # HighestOrAny(recipes[item].variants[j])


\* C24: after any sequence of add_recipe with any integer quantities in the
\* components and outputs fields, every input quantity and every output
\* quantity in the store is a positive integer (a recipe with a zero or
\* negative quantity is refused), so no output count of 0 reaches the resolver.
C24_QuantitiesPositive ==
    \A item \in DOMAIN recipes :
        \A i \in 1..Len(recipes[item].variants) :
            LET r == recipes[item].variants[i]
            IN /\ \A k \in 1..Len(r.inputs) : r.inputs[k].count >= 1
               /\ \A k \in 1..Len(r.outputs) : r.outputs[k].count >= 1


\* the variants of a list that belong to another tier than tag
OtherTiers(variants, tag) ==
    SelectSeq(variants, LAMBDA r : HighestOrAny(r) # TierIndex(tag))

\* C25: delete_selected_recipe on a confirmed selection "[tag] name" removes
\* only the variant of name for the selected tech tag: the variants of name
\* that belong to other tiers remain in the store in their original order,
\* and the entries of all other items are unchanged.
C25_DeleteOnlySelected ==
    [][\A name \in DOMAIN recipes :
          delete_selected_recipe(name) =>
              LET tag == get_best_recipe(name, recipes, current_tech_level).tag
                  rest == OtherTiers(recipes[name].variants, tag)
              IN /\ \A other \in DOMAIN recipes \ {name} :
                       other \in DOMAIN recipes' /\ recipes'[other] = recipes[other]
                 /\ IF rest = <<>> THEN name \notin DOMAIN recipes'
                    ELSE name \in DOMAIN recipes' /\ recipes'[name].variants = rest]_vars


----------------------------------------------------------------------------
(* Resolution passes over the two stored recipe shapes *)

\* the recipe object with its components under "_inputs"
Nested(v) == [v EXCEPT !.inputs_nested = TRUE]

\* the recipe object with its components at the top level
Flat(v) == [v EXCEPT !.inputs_nested = FALSE]

FlatStore(rs) ==
    [x \in DOMAIN rs |->
        [rs[x] EXCEPT !.variants = [i \in 1..Len(rs[x].variants) |-> Flat(rs[x].variants[i])]]]

\* stores of A alone or of A and B, each recipe in either shape:
\* A from B or from B and L, B from L
ShapeStores ==
    LET as == { Variant(TRUE, <<"Any">>, i, <<Pair("A", 1)>>) :
                  i \in { <<Pair("B", c)>> : c \in 1..MaxCount }
                        \cup { <<Pair("B", 1), Pair("L", 1)>> } }
        bs == { Variant(TRUE, <<"Any">>, <<Pair("L", c)>>, <<Pair("B", MaxOut)>>) :
                  c \in 1..MaxCount }
        shapes(vs) == vs \cup { Nested(v) : v \in vs }
    IN { [x \in {"A"} |-> ListEntry(<<a>>)] : a \in shapes(as) }
       \cup { [x \in {"A", "B"} |-> IF x = "A" THEN ListEntry(<<a>>) ELSE DictEntry(b)] :
                a \in shapes(as), b \in shapes(bs) }

InitShapes ==
    /\ recipes \in ShapeStores
    /\ inventory_file \in Inventories
    /\ current_tech_level = "MAX"
    /\ last_viewed_recipe = None
    /\ pc = "idle"
    /\ root = NoRoot
    /\ inventory = EmptyDict
    /\ original_inventory = EmptyDict
    /\ raw_needed = EmptyDict
    /\ component_totals = EmptyDict
    /\ stack = <<>>
    /\ trace = <<>>
    /\ sel = NoSel
    /\ sel_prev = NoSel
    /\ editor_inventory = inventory_file
    /\ craft = NoCraft
    /\ edit = NoEdit

SpecShapes == InitShapes /\ [][NextResolve]_vars

\* the visits of the pass to an item whose recipe keeps at least one
\* component under "_inputs"
NestedVisits ==
    { i \in 1..Len(trace) :
        /\ trace[i].item \in DOMAIN recipes
        /\ recipes[trace[i].item].variants[1].inputs_nested
        /\ recipes[trace[i].item].variants[1].inputs # <<>> }

\* C26: both stored shapes are resolved: a recipe that keeps its components
\* in a nested "_inputs" mapping, with at least one component, is not a leaf
\* for calculate_raw_materials and collect_components and is expanded into
\* those components exactly as the flat recipe with the same components:
\* the raw result is the one of the flattened store.
C26_NestedExpanded ==
    root.mode \in {"raw", "full"} =>
        /\ \A i \in NestedVisits :
              /\ ~trace[i].leaf
              /\ trace[i].remaining > 0 =>
                    trace[i].inputs = recipes[trace[i].item].variants[1].inputs
        /\ (root.mode = "raw" /\ pc = "done") =>
              raw_needed = calculate_raw_materials(root.name, root.quantity,
                                                   FlatStore(recipes),
                                                   inventory_file).raw_needed


----------------------------------------------------------------------------
(* Resolution passes on a chain of recipes *)

\* a chain deep enough for the innermost call to sit at the depth limit
ChainLen == MaxDepth + 1

ItemName(k) == "I" \o ToString(k)

ChainItems == { ItemName(k) : k \in 1..ChainLen }

\* item k is made from one of item k + 1; the last item is raw
ChainStore ==
    [x \in ChainItems \ {ItemName(ChainLen)} |->
        LET k == CHOOSE n \in 1..ChainLen : x = ItemName(n)
        IN ListEntry(<<Variant(TRUE, <<"Any">>, <<Pair(ItemName(k + 1), 1)>>,
                               <<Pair(x, 1)>>)>>)]

InitChain ==
    /\ recipes = ChainStore
    /\ inventory_file \in { EmptyDict, [x \in {ItemName(ChainLen)} |-> MaxHave] }
    /\ current_tech_level = "MAX"
    /\ last_viewed_recipe = None
    /\ pc = "idle"
    /\ root = NoRoot
    /\ inventory = EmptyDict
    /\ original_inventory = EmptyDict
    /\ raw_needed = EmptyDict
    /\ component_totals = EmptyDict
    /\ stack = <<>>
    /\ trace = <<>>
    /\ sel = NoSel
    /\ sel_prev = NoSel
    /\ editor_inventory = inventory_file
    /\ craft = NoCraft
    /\ edit = NoEdit

NextChain ==
    \/ \E name \in ChainItems, quantity \in 0..MaxQty, show_raw \in BOOLEAN :
          ViewRawMaterials(name, quantity, show_raw)
    \/ RawRecurse
    \/ CollectComponents
    \/ HandlerReturn

SpecChain == InitChain /\ [][NextChain]_vars

\* every item of the store can be resolved without meeting itself
AcyclicStore(rs) ==
    \A x \in DOMAIN rs : x \notin Reach(rs, Edges(rs, x), Cardinality(DOMAIN rs))

PositiveOutputs(rs) ==
    \A x \in DOMAIN rs : \A i \in 1..Len(rs[x].variants) :
        \A k \in 1..Len(rs[x].variants[i].outputs) : rs[x].variants[i].outputs[k].count >= 1

\* C27: on every finite acyclic recipe graph with positive output counts,
\* every inventory and every non-negative root quantity, a raw or full pass
\* terminates and returns a result: it makes a bounded number of calls and
\* never ends in an exception.
C27_PassReturns ==
    (/\ root.mode \in {"raw", "full"}
     /\ root.quantity >= 0
     /\ AcyclicStore(recipes)
     /\ PositiveOutputs(recipes))
       => /\ pc \in {"raw", "full", "done"}
          /\ Len(trace) <= MaxCalls


----------------------------------------------------------------------------
(* calculate_raw_materials and what is owned *)

\* stores of A alone or of A and B with every integer count add_recipe
\* accepts: A from L or from B, B from L
CountStores ==
    LET counts == (-1)..MaxCount
        as == { Variant(TRUE, <<"Any">>, <<Pair(x, c)>>, <<Pair("A", o)>>) :
                  x \in {"B", "L"}, c \in counts, o \in {1, MaxOut} }
        bs == { Variant(TRUE, <<"Any">>, <<Pair("L", c)>>, <<Pair("B", 1)>>) :
                  c \in counts }
    IN { [x \in {"A"} |-> ListEntry(<<a>>)] : a \in as }
       \cup { [x \in {"A", "B"} |-> ListEntry(<<IF x = "A" THEN a ELSE b>>)] :
                a \in as, b \in bs }

InitCounts ==
    /\ recipes \in CountStores
    /\ inventory_file \in Inventories
    /\ current_tech_level = "MAX"
    /\ last_viewed_recipe = None
    /\ pc = "idle"
    /\ root = NoRoot
    /\ inventory = EmptyDict
    /\ original_inventory = EmptyDict
    /\ raw_needed = EmptyDict
    /\ component_totals = EmptyDict
    /\ stack = <<>>
    /\ trace = <<>>
    /\ sel = NoSel
    /\ sel_prev = NoSel
    /\ editor_inventory = inventory_file
    /\ craft = NoCraft
    /\ edit = NoEdit

NextCounts ==
    \/ \E name \in Items, quantity \in Quantities :
          ViewRawMaterials(name, quantity, TRUE)
    \/ RawRecurse
    \/ HandlerReturn

SpecCounts == InitCounts /\ [][NextCounts]_vars

\* I1[x] <= I2[x] for every item, an item without an entry counting as 0
Leq(I1, I2) == \A x \in DOMAIN I1 \cup DOMAIN I2 : Get(I1, x, 0) <= Get(I2, x, 0)

\* C28: owning more never costs more: for a fixed acyclic store, root and
\* quantity, and inventories I1 <= I2, every leaf total calculate_raw_materials
\* returns with I2 is at most the total it returns for that leaf with I1
\* (I2 is the loaded inventory of the finished pass, I1 any smaller one).
C28_OwningMoreCostsLess ==
    (root.mode = "raw" /\ pc = "done" /\ AcyclicStore(recipes)) =>
        \A I1 \in Inventories :
            Leq(I1, inventory_file) =>
                LET r == calculate_raw_materials(root.name, root.quantity, recipes, I1)
                IN /\ r.error = None
                   /\ \A k \in DOMAIN raw_needed :
                         k \in DOMAIN r.raw_needed /\ raw_needed[k] <= r.raw_needed[k]


====
